---- MODULE Spec2Model ----
\* A model of src/app.py: the text extractor, the keyword analyzer, the match
\* scorer and the three request handlers (customize_resume, prepare_interview,
\* chat_with_bot).  Texts are sequences of one-character strings, so that the
\* two regular expressions of the program are modelled by what they match.
EXTENDS Integers, Sequences, FiniteSets, TLC

\* ---------------------------------------------------------------------------
\* Characters
\* ---------------------------------------------------------------------------

LowerLetters ==
    <<"a","b","c","d","e","f","g","h","i","j","k","l","m",
      "n","o","p","q","r","s","t","u","v","w","x","y","z">>

UpperLetters ==
    <<"A","B","C","D","E","F","G","H","I","J","K","L","M",
      "N","O","P","Q","R","S","T","U","V","W","X","Y","Z">>

DigitChars == <<"0","1","2","3","4","5","6","7","8","9">>

Range(s) == { s[i] : i \in DOMAIN s }

IndexOf(s, c) == CHOOSE i \in DOMAIN s : s[i] = c

\* [a-z]
IsLower(c) == c \in Range(LowerLetters)

IsUpper(c) == c \in Range(UpperLetters)

\* \d
IsDigit(c) == c \in Range(DigitChars)

\* \s
IsSpace(c) == c \in {" ", "\n", "\t"}

\* \w : letters, digits and the underscore
IsWordChar(c) == IsLower(c) \/ IsUpper(c) \/ IsDigit(c) \/ c = "_"

\* str.lower() on one character
LowerChar(c) == IF IsUpper(c) THEN LowerLetters[IndexOf(UpperLetters, c)] ELSE c

\* str.upper() on one character
UpperChar(c) == IF IsLower(c) THEN UpperLetters[IndexOf(LowerLetters, c)] ELSE c

\* str.lower()
LowerText(t) == SubSeq([i \in 1..Len(t) |-> LowerChar(t[i])], 1, Len(t))

\* int() on one decimal digit
DigitVal(c) == IndexOf(DigitChars, c) - 1

\* the largest element of a non-empty finite set of integers
MaxOf(S) == CHOOSE x \in S : \A y \in S : y <= x

\* the smallest element of a non-empty finite set of integers
MinOf(S) == CHOOSE x \in S : \A y \in S : x <= y

\* ---------------------------------------------------------------------------
\* Static catalogs
\* ---------------------------------------------------------------------------

\* stop_words, the set of src/app.py lines 56-63
stop_words ==
    { <<"a">>, <<"a","l","l">>, <<"a","n">>, <<"a","n","d">>, <<"a","r","e">>, <<"a","s">>,
      <<"a","t">>, <<"b","e">>, <<"b","e","e","n">>, <<"b","o","t","h">>, <<"b","u","t">>,
      <<"b","y">>, <<"c","a","n">>, <<"c","o","u","l","d">>, <<"d","i","d">>, <<"d","o">>,
      <<"d","o","e","s">>, <<"e","a","c","h">>, <<"e","v","e","r","y">>, <<"f","e","w">>,
      <<"f","o","r">>, <<"f","r","o","m">>, <<"h","a","s">>, <<"h","a","v","e">>, <<"h","e">>,
      <<"h","o","w">>, <<"i">>, <<"i","n">>, <<"i","s">>, <<"i","t">>, <<"m","a","y">>,
      <<"m","i","g","h","t">>, <<"m","o","r","e">>, <<"m","o","s","t">>, <<"m","u","s","t">>,
      <<"n","o">>, <<"n","o","r">>, <<"n","o","t">>, <<"o","f">>, <<"o","n">>,
      <<"o","n","l","y">>, <<"o","r">>, <<"o","t","h","e","r">>, <<"o","w","n">>,
      <<"s","a","m","e">>, <<"s","h","e">>, <<"s","h","o","u","l","d">>, <<"s","o">>,
      <<"s","o","m","e">>, <<"s","u","c","h">>, <<"t","h","a","n">>, <<"t","h","a","t">>,
      <<"t","h","e">>, <<"t","h","e","s","e">>, <<"t","h","e","y">>, <<"t","h","i","s">>,
      <<"t","h","o","s","e">>, <<"t","o">>, <<"t","o","o">>, <<"v","e","r","y">>,
      <<"w","a","s">>, <<"w","e">>, <<"w","h","a","t">>, <<"w","h","e","n">>,
      <<"w","h","e","r","e">>, <<"w","h","i","c","h">>, <<"w","h","o">>, <<"w","h","y">>,
      <<"w","i","l","l">>, <<"w","i","t","h">>, <<"w","o","u","l","d">>, <<"y","o","u">> }

\* tech_skills, lines 87-91
tech_skills ==
    { <<"a","g","i","l","e">>, <<"a","n","a","l","y","s","i","s">>,
      <<"a","n","a","l","y","t","i","c","s">>, <<"a","p","i">>, <<"a","w","s">>,
      <<"a","z","u","r","e">>, <<"c","d">>, <<"c","i">>, <<"d","a","t","a">>,
      <<"d","e","v","o","p","s">>, <<"d","j","a","n","g","o">>, <<"d","o","c","k","e","r">>,
      <<"f","l","a","s","k">>, <<"g","c","p">>, <<"g","i","t">>,
      <<"g","r","a","p","h","q","l">>, <<"j","a","v","a">>,
      <<"j","a","v","a","s","c","r","i","p","t">>, <<"j","i","r","a">>,
      <<"k","u","b","e","r","n","e","t","e","s">>, <<"l","e","a","r","n","i","n","g">>,
      <<"l","i","n","u","x">>, <<"m","a","c","h","i","n","e">>, <<"m","o","n","g","o","d","b">>,
      <<"n","o","d","e">>, <<"p","o","s","t","g","r","e","s","q","l">>,
      <<"p","y","t","h","o","n">>, <<"r","e","a","c","t">>, <<"r","e","d","i","s">>,
      <<"r","e","s","t">>, <<"s","c","r","u","m">>, <<"s","q","l">>,
      <<"w","i","n","d","o","w","s">> }

\* professional_terms, lines 109-111
professional_terms ==
    { <<"a","c","h","i","e","v","e","d">>, <<"c","o","l","l","a","b","o","r","a","t","e","d">>,
      <<"c","o","n","t","r","i","b","u","t","e","d">>, <<"c","r","e","a","t","e","d">>,
      <<"d","e","l","i","v","e","r","e","d">>, <<"d","e","s","i","g","n","e","d">>,
      <<"d","e","v","e","l","o","p","e","d">>, <<"i","m","p","l","e","m","e","n","t","e","d">>,
      <<"i","m","p","r","o","v","e","d">>, <<"i","n","c","r","e","a","s","e","d">>,
      <<"l","e","d">>, <<"m","a","n","a","g","e","d">>, <<"o","p","t","i","m","i","z","e","d">>,
      <<"p","r","o","v","e","n">> }

\* ---------------------------------------------------------------------------
\* Double-precision arithmetic
\*
\* The scorer computes its percentages with Python floats (IEEE-754 binary64).
\* A float is held here exactly, as a non-negative fixed-point number with
\* FracLimbs * LimbBits fraction bits, in NumLimbs little-endian limbs; every
\* operation computes the exact result and rounds it to 53 significant bits,
\* to nearest with ties to even, as the hardware does.  All floats the scorer
\* produces are below 2^45 and, when non-zero, at least 2^-7, so each is a
\* multiple of the unit 2^-60.
\* ---------------------------------------------------------------------------

LimbBits == 15

LimbBase == 32768

NumLimbs == 7

FracLimbs == 4

\* significant bits of a binary64 mantissa
MantBits == 53

RECURSIVE Pow2(_)
Pow2(k) == IF k = 0 THEN 1 ELSE 2 * Pow2(k - 1)

RECURSIVE CarryFrom(_, _, _)
\* propagate carries through limbs i..NumLimbs of raw, with carry c coming in
CarryFrom(raw, i, c) ==
    IF i > NumLimbs THEN << >>
    ELSE LET v == raw[i] + c
         IN  <<v % LimbBase>> \o CarryFrom(raw, i + 1, v \div LimbBase)

\* the limbs a function on 1..NumLimbs gives, as a tuple
Limbs(f) == SubSeq(f, 1, NumLimbs)

BigAdd(a, b) == CarryFrom(Limbs([i \in 1..NumLimbs |-> a[i] + b[i]]), 1, 0)

\* a * k for an integer 0 <= k < LimbBase
BigMulSmall(a, k) == CarryFrom(Limbs([i \in 1..NumLimbs |-> a[i] * k]), 1, 0)

\* the integer v as a fixed-point number
BigFromInt(v) ==
    Limbs([i \in 1..NumLimbs |->
        IF i <= FracLimbs THEN 0
        ELSE (v \div Pow2(LimbBits * (i - FracLimbs - 1))) % LimbBase])

RECURSIVE DivFrom(_, _, _, _)
\* long division of limbs 1..i of a by n, with remainder rem coming in from above
DivFrom(a, n, i, rem) ==
    IF i = 0 THEN [q |-> << >>, r |-> rem]
    ELSE LET cur  == rem * LimbBase + a[i]
             rest == DivFrom(a, n, i - 1, cur % n)
         IN  [q |-> rest.q \o <<cur \div n>>, r |-> rest.r]

\* floor(a / n) and the remainder, for an integer 0 < n < LimbBase
BigDivSmall(a, n) == DivFrom(a, n, NumLimbs, 0)

RECURSIVE BitLenInt(_)
BitLenInt(v) == IF v = 0 THEN 0 ELSE 1 + BitLenInt(v \div 2)

BitLen(a) ==
    LET nz == { i \in 1..NumLimbs : a[i] # 0 }
    IN  IF nz = {} THEN 0
        ELSE LimbBits * (MaxOf(nz) - 1) + BitLenInt(a[MaxOf(nz)])

\* bit p of a, bit 0 being the least significant
Bit(a, p) == (a[(p \div LimbBits) + 1] \div Pow2(p % LimbBits)) % 2

\* a with its d low bits cleared
ClearLow(a, d) ==
    Limbs([i \in 1..NumLimbs |->
        IF LimbBits * i <= d THEN 0
        ELSE IF LimbBits * (i - 1) >= d THEN a[i]
        ELSE a[i] - (a[i] % Pow2(d - LimbBits * (i - 1)))])

BigPow2(d) ==
    Limbs([i \in 1..NumLimbs |-> IF i = (d \div LimbBits) + 1 THEN Pow2(d % LimbBits) ELSE 0])

\* round the exact value a (plus a non-zero tail below the unit when sticky)
\* to MantBits significant bits, to nearest, ties to even
Round53(a, sticky) ==
    LET d == BitLen(a) - MantBits
    IN  IF d <= 0 THEN a
        ELSE LET roundbit == Bit(a, d - 1) = 1
                 tail     == sticky \/ \E p \in 0..(d - 2) : Bit(a, p) = 1
                 odd      == Bit(a, d) = 1
             IN  IF roundbit /\ (tail \/ odd)
                 THEN BigAdd(ClearLow(a, d), BigPow2(d))
                 ELSE ClearLow(a, d)

\* m / n on two ints (Python true division, correctly rounded)
FloatDiv(m, n) ==
    LET d == BigDivSmall(BigFromInt(m), n)
    IN  Round53(d.q, d.r # 0)

\* x * k for a float x and an int k
FloatMulInt(x, k) == Round53(BigMulSmall(x, k), FALSE)

\* x + y on two floats
FloatAdd(x, y) == Round53(BigAdd(x, y), FALSE)

\* int(x) for a float x >= 0 : truncation
FloatToInt(x) ==
    x[FracLimbs + 1] + LimbBase * x[FracLimbs + 2] + LimbBase * LimbBase * x[FracLimbs + 3]

\* the float literals 0.4, 0.3, 0.2 and 0.1 of the overall score
Weight04 == <<26240, 19660, 6553, 13107, 0, 0, 0>>

Weight03 == <<19648, 6553, 13107, 9830, 0, 0, 0>>

Weight02 == <<13120, 26214, 19660, 6553, 0, 0, 0>>

Weight01 == <<6560, 13107, 26214, 3276, 0, 0, 0>>

\* int((m / n) * 100)
Percent(m, n) == FloatToInt(FloatMulInt(FloatDiv(m, n), 100))

\* int((skills * 0.4) + (experience * 0.3) + (keywords * 0.2) + (tone * 0.1))
WeightedOverall(skills, experience, keywords, tone) ==
    FloatToInt(
        FloatAdd(
            FloatAdd(
                FloatAdd(FloatMulInt(Weight04, skills), FloatMulInt(Weight03, experience)),
                FloatMulInt(Weight02, keywords)),
            FloatMulInt(Weight01, tone)))

\* ---------------------------------------------------------------------------
\* extract_keywords
\* ---------------------------------------------------------------------------

\* a boundary that takes letters alone for word characters
LetterBoundary(t, i) ==
    LET before == i > 1 /\ IsLower(t[i - 1])
        after  == i <= Len(t) /\ IsLower(t[i])
    IN  before # after

\* \b at the gap before position i (1 <= i <= Len(t) + 1)
WordBoundary(t, i) ==
    LET before == i > 1 /\ IsWordChar(t[i - 1])
        after  == i <= Len(t) /\ IsWordChar(t[i])
    IN  before # after

\* the last index of the run of [a-z] that starts at i (i - 1 if there is none)
LowerRunEnd(t, i) ==
    LET stops == { j \in i..Len(t) : ~IsLower(t[j]) }
    IN  IF stops = {} THEN Len(t) ELSE MinOf(stops) - 1

\* \b[a-z]+\b tried at position i : the end of the match, or 0 when the
\* attempt fails.  [a-z]+ is greedy and gives characters back until \b holds.
WordMatchEnd(t, i) ==
    LET ends == { j \in i..LowerRunEnd(t, i) : WordBoundary(t, j + 1) }
    IN  IF WordBoundary(t, i) /\ ends # {} THEN MaxOf(ends) ELSE 0

RECURSIVE FindWords(_, _)
\* re.findall(r'\b[a-z]+\b', t), scanning from position i : the scan moves to
\* the first position at which the pattern matches, takes the match and goes
\* on after its end
FindWords(t, i) ==
    LET starts == { j \in i..Len(t) : WordMatchEnd(t, j) # 0 }
    IN  IF starts = {} THEN << >>
        ELSE LET b == MinOf(starts)
                 e == WordMatchEnd(t, b)
             IN  <<SubSeq(t, b, e)>> \o FindWords(t, e + 1)

\* the length threshold a word must reach to be kept
MinKeywordLen == 3

\* [w for w in words if len(w) >= 3 and w not in stop_words]
KeepKeyword(w) == Len(w) >= MinKeywordLen /\ w \notin stop_words

extract_keywords(text) ==
    SelectSeq(FindWords(LowerText(text), 1), KeepKeyword)

\* ---------------------------------------------------------------------------
\* calculate_match_score
\* ---------------------------------------------------------------------------

\* the last index of the run of \d that starts at i (i - 1 if there is none)
DigitRunEnd(t, i) ==
    LET stops == { j \in i..Len(t) : ~IsDigit(t[j]) }
    IN  IF stops = {} THEN Len(t) ELSE MinOf(stops) - 1

\* the last index of the run of \s that starts at i (i - 1 if there is none)
SpaceRunEnd(t, i) ==
    LET stops == { j \in i..Len(t) : ~IsSpace(t[j]) }
    IN  IF stops = {} THEN Len(t) ELSE MinOf(stops) - 1

\* the lower-case literal lit occurs at position i, letter case ignored
LiteralAt(t, i, lit) ==
    /\ i + Len(lit) - 1 <= Len(t)
    /\ \A k \in 1..Len(lit) : LowerChar(t[i + k - 1]) = lit[k]

\* (?:years?|yrs) tried at position i : the end of the match, 0 when it fails
UnitEnd(t, i) ==
    IF LiteralAt(t, i, <<"y","e","a","r">>)
    THEN IF LiteralAt(t, i + 4, <<"s">>) THEN i + 4 ELSE i + 3
    ELSE IF LiteralAt(t, i, <<"y","r","s">>) THEN i + 2
    ELSE 0

\* (\d+)\s*(?:years?|yrs) tried at position i : the end of the group and the
\* end of the match, or <<0, 0>> when the attempt fails.  \d+ and \s* are
\* greedy and give characters back in turn.
YearsMatchAt(t, i) ==
    LET cands == { c \in (i..DigitRunEnd(t, i)) \X ((i - 1)..Len(t)) :
                      /\ c[2] >= c[1]
                      /\ c[2] <= SpaceRunEnd(t, c[1] + 1)
                      /\ UnitEnd(t, c[2] + 1) # 0 }
    IN  IF cands = {} THEN <<0, 0>>
        ELSE LET k == MaxOf({ c[1] : c \in cands })
                 w == MaxOf({ c[2] : c \in { x \in cands : x[1] = k } })
             IN  <<k, UnitEnd(t, w + 1)>>

RECURSIVE FindYears(_, _)
\* re.findall(r'(\d+)\s*(?:years?|yrs)', t, re.IGNORECASE), scanning from i :
\* the group of the first match at or after i, then the scan after its end
FindYears(t, i) ==
    LET starts == { j \in i..Len(t) : YearsMatchAt(t, j)[1] # 0 }
    IN  IF starts = {} THEN << >>
        ELSE LET b == MinOf(starts)
                 m == YearsMatchAt(t, b)
             IN  <<SubSeq(t, b, m[1])>> \o FindYears(t, m[2] + 1)

RECURSIVE ParseInt(_)
\* int() on a string of decimal digits
ParseInt(ds) ==
    IF ds = << >> THEN 0
    ELSE 10 * ParseInt(SubSeq(ds, 1, Len(ds) - 1)) + DigitVal(ds[Len(ds)])

Min(a, b) == IF a <= b THEN a ELSE b

Max(a, b) == IF a >= b THEN a ELSE b

\* keywords_match, line 84
KeywordsMatch(resume_set, jd_unique) ==
    Percent(Cardinality(jd_unique \cap resume_set), Cardinality(jd_unique))

\* skills_match, lines 93-97
SkillsMatch(resume_set, jd_unique) ==
    LET jd_skills      == jd_unique \cap tech_skills
        resume_skills  == resume_set \cap tech_skills
        matched_skills == jd_skills \cap resume_skills
    IN  IF jd_skills # {}
        THEN Percent(Cardinality(matched_skills), Cardinality(jd_skills))
        ELSE 0

\* the cap of experience_match
ExperienceCap == 100

\* the number of years that earns the full experience score
FullYears == 10

\* the experience score without its cap
UncappedExperience(years) == Percent(years, FullYears)

\* min(int((years / 10) * 100), 100), line 106
CappedExperience(years) == Min(Percent(years, FullYears), ExperienceCap)

\* the last match instead of the first
LastYears(years_match) == years_match[Len(years_match)]

\* years_match[0], line 103
FirstYears(years_match) == years_match[1]

\* experience_match, lines 100-106
ExperienceMatch(resume_text) ==
    LET years_match == FindYears(resume_text, 1)
    IN  IF years_match # << >>
        THEN LET years == ParseInt(FirstYears(years_match))
             IN  IF years > 0 THEN CappedExperience(years) ELSE 0
        ELSE 0

\* tone_match, lines 109-113
ToneMatch(resume_set) ==
    Percent(Cardinality(resume_set \cap professional_terms),
            Max(1, Cardinality(professional_terms)))

\* the value returned by the early exit of line 80
UnableToAnalyze ==
    [overall |-> 0, skills |-> 0, experience |-> 0, keywords |-> 0,
     summary |-> <<"Unable to analyze">>]

\* an early exit taken for an empty resume keyword set as well
EarlyExitOnEither(resume_set, jd_unique) == jd_unique = {} \/ resume_set = {}

\* the condition of the early exit, line 79
EarlyExit(resume_set, jd_unique) == jd_unique = {}

\* the f-string of line 119
MatchSummary(keywords_match, skills_match) ==
    <<"Your resume matches ", keywords_match, "% of job keywords with ",
      skills_match, "% skill alignment.">>

calculate_match_score(resume_text, jd_text) ==
    LET resume_keywords == extract_keywords(resume_text)
        jd_keywords     == extract_keywords(jd_text)
        jd_unique       == Range(jd_keywords)
        resume_set      == Range(resume_keywords)
    IN  IF EarlyExit(resume_set, jd_unique) THEN UnableToAnalyze
        ELSE LET keywords_match   == KeywordsMatch(resume_set, jd_unique)
                 skills_match     == SkillsMatch(resume_set, jd_unique)
                 experience_match == ExperienceMatch(resume_text)
                 tone_match       == ToneMatch(resume_set)
                 overall_score    == WeightedOverall(skills_match, experience_match,
                                                     keywords_match, tone_match)
                 \* lines 84-113 run to their end, in this order, before line 116
                 components       == <<keywords_match, skills_match, experience_match,
                                       tone_match>>
             IN  CASE components \in Seq(Int) ->
                     [overall |-> overall_score, skills |-> skills_match,
                      experience |-> experience_match, keywords |-> keywords_match,
                      summary |-> MatchSummary(keywords_match, skills_match)]

\* ---------------------------------------------------------------------------
\* extract_text
\* ---------------------------------------------------------------------------

\* str.endswith
EndsWith(name, suffix) ==
    /\ Len(name) >= Len(suffix)
    /\ SubSeq(name, Len(name) - Len(suffix) + 1, Len(name)) = suffix

DotPdf == <<".","p","d","f">>

DotDocx == <<".","d","o","c","x">>

DotTxt == <<".","t","x","t">>

\* An uploaded document: its filename, whether the reader its suffix selects
\* (fitz, docx, UTF-8 decoding) gets through the bytes, and the text it yields.
\* The branches of lines 36-47; "raised" is the path into the except clause.
ReadDocument(doc) ==
    IF EndsWith(doc.filename, DotPdf) \/ EndsWith(doc.filename, DotDocx)
       \/ EndsWith(doc.filename, DotTxt)
    THEN IF doc.readable THEN [raised |-> FALSE, text |-> doc.text]
         ELSE [raised |-> TRUE, text |-> << >>]
    ELSE [raised |-> FALSE, text |-> << >>]

\* the except clause of lines 48-50 turns every failure into ""; "raised"
\* tells whether an exception leaves extract_text
extract_text(doc) ==
    LET r == ReadDocument(doc)
    IN  IF r.raised THEN [raised |-> FALSE, text |-> << >>] ELSE r

\* ---------------------------------------------------------------------------
\* Requests, responses and the backend
\* ---------------------------------------------------------------------------

\* the value of the global of line 22 when initialization did not happen
None == "None"

\* the client built at line 27
GeminiModel == "gemini-2.0-flash"

Lit(s) == [lit |-> s, text |-> << >>]

Txt(t) == [lit |-> "", text |-> t]

\* a key that the request does not carry
Absent == [present |-> FALSE, val |-> << >>]

Present(v) == [present |-> TRUE, val |-> v]

\* Python truthiness of data.get(key) : None and "" are falsy
Falsy(field) == ~field.present \/ field.val = << >>

ErrorBody(msg) == [error |-> msg]

Respond(status, body) == [status |-> status, body |-> body, raised |-> "none"]

\* an exception that leaves the view function: the framework answers 500
Escaped(exc) ==
    [status |-> 500, body |-> [html |-> "Internal Server Error"], raised |-> exc]

Call(fn, ok) == [fn |-> fn, ok |-> ok]

\* what one run of a view function leaves behind
Handled(response, calls, prompt) ==
    [response |-> response, calls |-> calls, prompt |-> prompt]

\* a check that never finds the handle missing
ModelNeverMissing(m) == m = ""

\* `if not model`, lines 130, 179, 213
ModelMissing(m) == m = None

\* the error a failed backend call ends in, lines 172-174, 206-208, 239-241
BackendError(outcome) == Respond(500, ErrorBody(outcome.error))

\* a view function that calls the backend again after a failure
RetryingGenerateCalls(outcome) ==
    IF outcome.ok THEN <<Call("generate_content", TRUE)>>
    ELSE <<Call("generate_content", FALSE), Call("generate_content", FALSE)>>

\* the calls to model.generate_content a view function makes for one request
GenerateCalls(outcome) == <<Call("generate_content", outcome.ok)>>

\* ---------------------------------------------------------------------------
\* customize_resume
\* ---------------------------------------------------------------------------

TailorPrompt(resume_text, jd_text) ==
    << Lit("Tailor this resume ... **Job Description:**\n"), Txt(jd_text),
       Lit("\n\n**Original Resume:**\n"), Txt(resume_text),
       Lit("\n\n**Tailored Resume:**") >>

\* the piece of a completion that stands for a run of three backquotes
CodeFence == "[fence]"

\* .replace(CodeFence, '') on a completion held as a sequence of pieces
DropFences(pieces) == SelectSeq(pieces, LAMBDA x : x # CodeFence)

RECURSIVE StripPieces(_)
\* .strip() on a completion held as a sequence of pieces
StripPieces(pieces) ==
    IF pieces = << >> THEN pieces
    ELSE IF Head(pieces) = " " THEN StripPieces(Tail(pieces))
    ELSE IF pieces[Len(pieces)] = " " THEN StripPieces(SubSeq(pieces, 1, Len(pieces) - 1))
    ELSE pieces

\* a check that wants both texts empty
BothExtractionsFailed(resume_text, jd_text) == resume_text = << >> /\ jd_text = << >>

\* `if not resume_text or not jd_text`, line 143
ExtractionFailed(resume_text, jd_text) == resume_text = << >> \/ jd_text = << >>

customize_resume(m, files, outcome) ==
    IF ModelMissing(m)
    THEN Handled(Respond(500, ErrorBody("Model not available")), << >>, << >>)
    ELSE IF ~files.resume.present \/ ~files.job_description.present
    THEN Handled(Respond(400, ErrorBody("Missing files")), << >>, << >>)
    ELSE
      LET resume_read == extract_text(files.resume.val)
          jd_read     == extract_text(files.job_description.val)
          resume_text == resume_read.text
          jd_text     == jd_read.text
          extracted   == IF resume_read.raised
                         THEN <<Call("extract_text", FALSE)>>
                         ELSE <<Call("extract_text", TRUE),
                                Call("extract_text", ~jd_read.raised)>>
      IN  IF resume_read.raised \/ jd_read.raised
          THEN Handled(Respond(500, ErrorBody("extraction error")), extracted, << >>)
          ELSE IF ExtractionFailed(resume_text, jd_text)
          THEN Handled(Respond(400, ErrorBody("Could not extract text from files")),
                       extracted, << >>)
          ELSE
            LET prompt == TailorPrompt(resume_text, jd_text)
                calls  == extracted \o <<Call("calculate_match_score", TRUE)>>
                              \o GenerateCalls(outcome)
                \* the five scores are unpacked from one call of the scorer
                answers == { IF outcome.ok
                  THEN Handled(
                         Respond(200,
                           [customized_resume |-> StripPieces(DropFences(outcome.text)),
                            resume_text       |-> resume_text,
                            jd_text           |-> jd_text,
                            overall_score     |-> score.overall,
                            skills_match      |-> score.skills,
                            experience_match  |-> score.experience,
                            keywords_match    |-> score.keywords,
                            match_summary     |-> score.summary]),
                         calls, prompt)
                  ELSE Handled(BackendError(outcome), calls, prompt)
                  : score \in {calculate_match_score(resume_text, jd_text)} }
            IN  CHOOSE answer \in answers : TRUE

\* ---------------------------------------------------------------------------
\* prepare_interview
\* ---------------------------------------------------------------------------

InterviewPrompt(resume_text, jd_text) ==
    << Lit("Generate 10 likely interview questions ... **Job Description:**\n"),
       Txt(jd_text), Lit("\n\n**Resume:**\n"), Txt(resume_text) >>

\* request.json is whatever JSON value the body holds; .get exists on dicts only
HasGet(data) == data.kind = "object"

prepare_interview(m, data, outcome) ==
    IF ModelMissing(m)
    THEN Handled(Respond(500, ErrorBody("Model not available")), << >>, << >>)
    ELSE IF ~HasGet(data)
    THEN Handled(Escaped("AttributeError"), << >>, << >>)
    ELSE
      LET resume_text == data.fields.resume_text
          jd_text     == data.fields.jd_text
      IN  IF Falsy(resume_text) \/ Falsy(jd_text)
          THEN Handled(Respond(400, ErrorBody("Missing data")), << >>, << >>)
          ELSE
            LET prompt == InterviewPrompt(resume_text.val, jd_text.val)
            IN  IF outcome.ok
                THEN Handled(Respond(200, [questions |-> outcome.text]),
                             GenerateCalls(outcome), prompt)
                ELSE Handled(BackendError(outcome), GenerateCalls(outcome), prompt)

\* ---------------------------------------------------------------------------
\* chat_with_bot
\* ---------------------------------------------------------------------------

\* str.title() : a letter that follows a letter is lower-cased, any other
\* letter is upper-cased
Title(s) ==
    SubSeq([i \in 1..Len(s) |->
               IF i > 1 /\ (IsLower(s[i - 1]) \/ IsUpper(s[i - 1]))
               THEN LowerChar(s[i]) ELSE UpperChar(s[i])], 1, Len(s))

\* f"{turn['role'].title()}: {turn['content']}\n", line 233
TurnLine(turn) == << Txt(Title(turn.role)), Lit(": "), Txt(turn.content), Lit("\n") >>

RECURSIVE RenderHistoryNewestFirst(_, _, _)
\* a loop that walks the history from its end
RenderHistoryNewestFirst(history, i, acc) ==
    IF i > Len(history) THEN acc
    ELSE RenderHistoryNewestFirst(history, i + 1,
                                  acc \o TurnLine(history[Len(history) - i + 1]))

RECURSIVE RenderHistory(_, _, _)
\* the loop of lines 232-233 from turn i on, full_prompt being acc so far
RenderHistory(history, i, acc) ==
    IF i > Len(history) THEN acc
    ELSE RenderHistory(history, i + 1, acc \o TurnLine(history[i]))

ChatPrompt(resume_text, history, user_message) ==
    LET system_prompt ==
            << Lit("You are a helpful resume coach. ... **Resume:**\n"), Txt(resume_text),
               Lit("\n\nBe concise, professional, and specific.") >>
        opened == system_prompt \o << Lit("\n\nConversation:\n") >>
    IN  RenderHistory(history, 1, opened)
            \o << Lit("\nUser: "), Txt(user_message), Lit("\nAssistant:") >>

chat_with_bot(m, data, outcome) ==
    IF ModelMissing(m)
    THEN Handled(Respond(500, ErrorBody("Model not available")), << >>, << >>)
    ELSE IF ~HasGet(data)
    THEN Handled(Escaped("AttributeError"), << >>, << >>)
    ELSE
      LET resume_text  == data.fields.resume_text
          history      == IF data.fields.history.present
                          THEN data.fields.history.val ELSE << >>
          user_message == data.fields.message
      IN  IF Falsy(resume_text) \/ Falsy(user_message)
          THEN Handled(Respond(400, ErrorBody("Missing data")), << >>, << >>)
          ELSE
            LET prompt == ChatPrompt(resume_text.val, history, user_message.val)
            IN  IF outcome.ok
                THEN Handled(Respond(200, [reply |-> outcome.text]),
                             GenerateCalls(outcome), prompt)
                ELSE Handled(BackendError(outcome), GenerateCalls(outcome), prompt)

\* ---------------------------------------------------------------------------
\* State
\* ---------------------------------------------------------------------------

VARIABLES
    kw_text,      \* the argument of a call of extract_keywords
    kw_result,    \* what that call returned
    kw_done,      \* whether the call has returned
    sc_resume,    \* the resume_text argument of a call of calculate_match_score
    sc_jd,        \* its jd_text argument
    score,        \* what that call returned
    model,        \* the process-wide backend handle of line 22
    request,      \* the request the server handled last
    backend,      \* how the backend answers a generate_content call of that request
    response,     \* the response to that request
    calls,        \* the calls the view function made for it, in order
    prompt        \* the prompt it handed to the backend

vars == <<kw_text, kw_result, kw_done, sc_resume, sc_jd, score,
          model, request, backend, response, calls, prompt>>

kwVars == <<kw_text, kw_result, kw_done>>

scoreVars == <<sc_resume, sc_jd, score>>

serverVars == <<model, request, backend, response, calls, prompt>>

\* ---------------------------------------------------------------------------
\* Inputs
\* ---------------------------------------------------------------------------

RECURSIVE SeqsUpTo(_, _)
\* the sequences of at most n elements of S
SeqsUpTo(S, n) ==
    IF n = 0 THEN { << >> }
    ELSE LET shorter == SeqsUpTo(S, n - 1)
         IN  shorter \cup { Append(q, x) : q \in { y \in shorter : Len(y) = n - 1 }, x \in S }

RECURSIVE Flatten(_)
\* the concatenation of a sequence of texts
Flatten(parts) == IF parts = << >> THEN << >> ELSE Head(parts) \o Flatten(Tail(parts))

\* the characters the texts given to extract_keywords are made of
KwAlphabet == {"t", "o", "O", "3", "_", " "}

MaxTextLen == 4

KwTexts == SeqsUpTo(KwAlphabet, MaxTextLen)

Sql == <<"s","q","l"," ">>

LedProven == <<"l","e","d"," ","p","r","o","v","e","n"," ">>

FourYrs == <<"4"," ","y","r","s"," ">>

TwentyYears == <<"2","0"," ","Y","e","a","r","s"," ">>

ZeroYrs == <<"0","y","r","s"," ">>

Seven == <<"7">>

The == <<"t","h","e"," ">>

\* how a resume given to calculate_match_score opens
ResumeOpenings == { << >>, Sql, Sql \o LedProven }

\* the pieces its account of experience is made of
YearChunks == {FourYrs, TwentyYears, ZeroYrs, Seven}

MaxYearChunks == 2

ResumeTexts ==
    { o \o Flatten(q) : o \in ResumeOpenings, q \in SeqsUpTo(YearChunks, MaxYearChunks) }

\* skill words a job description lists, in this order
JDSkillWords ==
    << Sql, <<"a","w","s"," ">>, <<"g","c","p"," ">>, <<"a","p","i"," ">>,
       <<"g","i","t"," ">>, <<"j","a","v","a"," ">>, <<"r","e","s","t"," ">>,
       <<"n","o","d","e"," ">> >>

MaxJDSkills == 6

\* what may follow the skill words of a job description
JDExtras == { << >>, The, <<"l","e","d",".","s","3"," ","x","_","y"," ","-">> }

\* how many of the skill words a job description lists
JDSkillCounts == {0, 1, 2, MaxJDSkills}

JDTexts ==
    { Flatten(SubSeq(JDSkillWords, 1, n)) \o x : n \in JDSkillCounts, x \in JDExtras }

\* the texts documents and JSON fields of requests carry
DocTexts == { << >>, The, Sql \o LedProven \o FourYrs, Sql \o <<"a","w","s"," ">> }

Filenames ==
    { <<"c","v",".","p","d","f">>, <<"c","v",".","d","o","c","x">>,
      <<"c","v",".","t","x","t">>, <<"c","v",".","P","D","F">> }

Documents ==
    { [filename |-> f, readable |-> TRUE, text |-> t] : f \in Filenames, t \in DocTexts }
    \cup { [filename |-> f, readable |-> FALSE, text |-> << >>] : f \in Filenames }

FileFields == {Absent} \cup { Present(d) : d \in Documents }

TextFields == {Absent} \cup { Present(t) : t \in DocTexts }

User == <<"u","s","e","r">>

Assistant == <<"a","s","s","i","s","t","a","n","t">>

Turns ==
    { [role |-> User, content |-> <<"h","i">>],
      [role |-> User, content |-> <<"o","k","?">>],
      [role |-> Assistant, content |-> <<"h","i">>],
      [role |-> <<"A","I"," ","b","o","t">>, content |-> <<"o","k","?">>] }

MaxHistory == 2

Histories == SeqsUpTo(Turns, MaxHistory)

HistoryFields == {Absent} \cup { Present(h) : h \in Histories }

\* request.json : a JSON object with the fields it carries, or another JSON value
NotAnObject(kind, fields) == [kind |-> kind, fields |-> fields]

InterviewBodies ==
    { [kind |-> "object", fields |-> [resume_text |-> r, jd_text |-> j]] :
          r \in TextFields, j \in TextFields }
    \cup { NotAnObject(k, [resume_text |-> Absent, jd_text |-> Absent]) : k \in {"null", "array"} }

ChatBodies ==
    { [kind |-> "object", fields |-> [resume_text |-> r, history |-> h, message |-> m]] :
          r \in TextFields, h \in HistoryFields, m \in { Absent, Present(<< >>), Present(<<"h","i">>) } }
    \cup { NotAnObject(k, [resume_text |-> Absent, history |-> Absent, message |-> Absent]) :
               k \in {"null", "array"} }

\* what model.generate_content followed by response.text comes to
Outcomes ==
    { [ok |-> TRUE, text |-> <<"body">>, error |-> ""],
      [ok |-> TRUE, text |-> <<CodeFence, "body", CodeFence, " ">>, error |-> ""],
      [ok |-> FALSE, text |-> << >>, error |-> "backend failure"] }

\* ---------------------------------------------------------------------------
\* Specifications
\* ---------------------------------------------------------------------------

NoScore ==
    [overall |-> -1, skills |-> -1, experience |-> -1, keywords |-> -1, summary |-> << >>]

NoRequest == [op |-> "none"]

NoResponse == [status |-> 0, body |-> [none |-> TRUE], raised |-> "none"]

NoOutcome == [ok |-> FALSE, text |-> << >>, error |-> ""]

KwIdle == kw_text = << >> /\ kw_result = << >> /\ kw_done = FALSE

ScoreIdle == sc_resume = << >> /\ sc_jd = << >> /\ score = NoScore

\* lines 15-30 : the handle exists only if the key is set and the client is built
InitModel(api_key_set, init_ok) == IF api_key_set /\ init_ok THEN GeminiModel ELSE None

ServerStart ==
    /\ \E api_key_set \in BOOLEAN, init_ok \in BOOLEAN : model = InitModel(api_key_set, init_ok)
    /\ request = NoRequest
    /\ backend = NoOutcome
    /\ response = NoResponse
    /\ calls = << >>
    /\ prompt = << >>

ServerIdle ==
    /\ model = None
    /\ request = NoRequest
    /\ backend = NoOutcome
    /\ response = NoResponse
    /\ calls = << >>
    /\ prompt = << >>

\* one request handled from arrival to the return of the view function; the
\* server takes the next request once this one is answered
Serve(req, outcome, h) ==
    /\ request' = req
    /\ backend' = outcome
    /\ response' = h.response
    /\ calls' = h.calls
    /\ prompt' = h.prompt
    /\ UNCHANGED <<model, kwVars, scoreVars>>

Customize ==
    /\ request = NoRequest
    /\ \E r \in FileFields, j \in FileFields, outcome \in Outcomes :
           LET files == [resume |-> r, job_description |-> j]
           IN  \E h \in {customize_resume(model, files, outcome)} :
                   Serve([op |-> "customize", files |-> files], outcome, h)

PrepareInterview ==
    /\ request = NoRequest
    /\ \E data \in InterviewBodies, outcome \in Outcomes :
           \E h \in {prepare_interview(model, data, outcome)} :
               Serve([op |-> "prepare_interview", data |-> data], outcome, h)

Chat ==
    /\ request = NoRequest
    /\ \E data \in ChatBodies, outcome \in Outcomes :
           \E h \in {chat_with_bot(model, data, outcome)} :
               Serve([op |-> "chat", data |-> data], outcome, h)

\* the response goes out and everything the request owned is discarded; only
\* the backend handle outlives a request
SendResponse ==
    /\ request # NoRequest
    /\ request' = NoRequest
    /\ backend' = NoOutcome
    /\ response' = NoResponse
    /\ calls' = << >>
    /\ prompt' = << >>
    /\ UNCHANGED <<model, kwVars, scoreVars>>

Init == KwIdle /\ ScoreIdle /\ ServerStart

Next == Customize \/ PrepareInterview \/ Chat \/ SendResponse

Spec == Init /\ [][Next]_vars

\* calls of calculate_match_score on the texts of ResumeTexts and JDTexts
InitScore ==
    /\ sc_resume \in ResumeTexts
    /\ sc_jd \in JDTexts
    /\ score = NoScore
    /\ KwIdle /\ ServerIdle

CalculateMatchScore ==
    /\ score = NoScore
    /\ score' = calculate_match_score(sc_resume, sc_jd)
    /\ UNCHANGED <<sc_resume, sc_jd, kwVars, serverVars>>

NextScore == CalculateMatchScore

SpecScore == InitScore /\ [][NextScore]_vars

\* calls of extract_keywords on the texts of KwTexts
InitKw ==
    /\ kw_text \in KwTexts
    /\ kw_result = << >>
    /\ kw_done = FALSE
    /\ ScoreIdle /\ ServerIdle

ExtractKeywords ==
    /\ ~kw_done
    /\ kw_result' = extract_keywords(kw_text)
    /\ kw_done' = TRUE
    /\ UNCHANGED <<kw_text, scoreVars, serverVars>>

NextKw == ExtractKeywords

SpecKw == InitKw /\ [][NextKw]_vars

\* ---------------------------------------------------------------------------
\* Properties of calculate_match_score (SpecScore)
\* ---------------------------------------------------------------------------

Scored == score # NoScore

NormalPath == Scored /\ Len(score.summary) > 1

\* C1: each of the four percentages calculate_match_score returns (overall,
\* skills, experience, keywords) is an integer of 0..100, on the early exit
\* and on the normal path.
C1_PercentagesInRange ==
    Scored =>
        {score.overall, score.skills, score.experience, score.keywords} \subseteq 0..100

\* a resume whose first years figure is beyond ten, scored on the normal path
C1_Witness ==
    /\ NormalPath
    /\ FindYears(sc_resume, 1) # << >>
    /\ ParseInt(FindYears(sc_resume, 1)[1]) > FullYears
    /\ score.experience = 100

\* the job description has no keyword
JDKeywordsEmpty == extract_keywords(sc_jd) = << >>

\* C5: when the job-description keyword set is empty the result is exactly
\* (0, 0, 0, 0, "Unable to analyze") whatever the resume holds, and no other
\* input returns that result without computing the components.
C5_EmptyJobKeywords ==
    Scored =>
        /\ JDKeywordsEmpty => score = UnableToAnalyze
        /\ score.summary = <<"Unable to analyze">> => JDKeywordsEmpty

\* a job description of stop-words, short tokens and non-letters only, scored
\* against a resume with a years figure and professional terms
C5_Witness ==
    /\ Scored
    /\ sc_jd # << >>
    /\ JDKeywordsEmpty
    /\ FindYears(sc_resume, 1) # << >>
    /\ Range(extract_keywords(sc_resume)) \cap professional_terms # {}
    /\ score = UnableToAnalyze

\* truncate(|resumeSet \cap professionalTerms| / 14 * 100) in exact arithmetic
ExactTone ==
    (100 * Cardinality(Range(extract_keywords(sc_resume)) \cap professional_terms)) \div 14

\* C6: on the normal path the overall score is
\* floor((4*skills + 3*experience + 2*keywords + tone) / 10).
C6_OverallIsExactWeightedSum ==
    NormalPath =>
        score.overall =
            (4 * score.skills + 3 * score.experience + 2 * score.keywords + ExactTone) \div 10

\* the characters i..j of t all satisfy the test
AllDigits(t, i, j) == \A p \in i..j : IsDigit(t[p])

AllSpaces(t, i, j) == \A p \in i..j : IsSpace(t[p])

\* "year" or "yrs" stands at position i, in any letter case
UnitAt(t, i) ==
    \E u \in { <<"y","e","a","r">>, <<"y","r","s">> } :
        /\ i + Len(u) - 1 <= Len(t)
        /\ \A k \in 1..Len(u) : t[i + k - 1] \in {u[k], UpperChar(u[k])}

\* an occurrence of "<integer> year(s)" or "<integer> yrs" begins at i
OccurrenceAt(t, i) ==
    \E k \in i..Len(t) :
        /\ AllDigits(t, i, k)
        /\ \E w \in k..Len(t) : AllSpaces(t, k + 1, w) /\ UnitAt(t, w + 1)

Occurrences(t) == { i \in 1..Len(t) : OccurrenceAt(t, i) }

RECURSIVE DecimalValue(_, _, _)
\* the value of the decimal digits i..j of t, read left to right
DecimalValue(t, i, j) ==
    IF i > j THEN 0
    ELSE 10 * DecimalValue(t, i, j - 1)
         + (CHOOSE v \in 0..9 : DigitChars[v + 1] = t[j])

\* the integer of the first occurrence: the digits from its start up to the
\* first character that is not a digit
FirstFigure(t) ==
    LET b == MinOf(Occurrences(t))
        e == MaxOf({ k \in b..Len(t) : AllDigits(t, b, k) })
    IN  DecimalValue(t, b, e)

\* C7: the experience score depends on the first occurrence of
\* "<integer> year(s)" or "<integer> yrs" in the raw resume only: with Y that
\* integer it is min(truncate(Y/10*100), 100), and 0 when there is no
\* occurrence; later occurrences do not matter.
C7_ExperienceFromFirstFigure ==
    NormalPath =>
        score.experience =
            IF Occurrences(sc_resume) = {} THEN 0
            ELSE LET tenths == (FirstFigure(sc_resume) * 100) \div 10
                 IN  IF tenths < 100 THEN tenths ELSE 100

\* a resume with two occurrences whose first figure alone sets the score
C7_Witness ==
    /\ NormalPath
    /\ Cardinality(Occurrences(sc_resume)) >= 2
    /\ FirstFigure(sc_resume) = 4
    /\ \E i \in Occurrences(sc_resume) : sc_resume[i] = "2"
    /\ score.experience = 40

\* ---------------------------------------------------------------------------
\* Properties of extract_keywords (SpecKw)
\* ---------------------------------------------------------------------------

\* i..j is a maximal run of lower-case ASCII letters of t
LetterRun(t, i, j) ==
    /\ i <= j
    /\ \A p \in i..j : IsLower(t[p])
    /\ i = 1 \/ ~IsLower(t[i - 1])
    /\ j = Len(t) \/ ~IsLower(t[j + 1])

\* a maximal letter run with no digit or underscore next to it
WholeWordRun(t, i, j) ==
    /\ LetterRun(t, i, j)
    /\ i = 1 \/ ~(IsDigit(t[i - 1]) \/ t[i - 1] = "_")
    /\ j = Len(t) \/ ~(IsDigit(t[j + 1]) \/ t[j + 1] = "_")

RECURSIVE RunsInOrder(_, _)
\* the texts of the runs of S, a set of <<first, last>> pairs, in source order
RunsInOrder(t, S) ==
    IF S = {} THEN << >>
    ELSE LET r == CHOOSE x \in S : \A y \in S : x[1] <= y[1]
         IN  <<SubSeq(t, r[1], r[2])>> \o RunsInOrder(t, S \ {r})

\* a token of three letters or more that is no stop-word
Retained(w) == Len(w) >= 3 /\ w \notin stop_words

LoweredInput == LowerText(kw_text)

Positions == (1..Len(kw_text)) \X (1..Len(kw_text))

Answered == request.op # "none"

ResponseFields == DOMAIN response.body

IsError(status, msg) ==
    /\ response.raised = "none"
    /\ response.status = status
    /\ ResponseFields = {"error"}
    /\ response.body.error = msg

GenerateIndexes == { i \in DOMAIN calls : calls[i].fn = "generate_content" }

\* the fields of a successful response of each operation
ResultFields ==
    CASE request.op = "customize" ->
             {"customized_resume", "resume_text", "jd_text", "overall_score",
              "skills_match", "experience_match", "keywords_match", "match_summary"}
      [] request.op = "prepare_interview" -> {"questions"}
      [] request.op = "chat" -> {"reply"}

\* C2: with no backend handle, each operation answers "Model not available"
\* and calls neither text extraction, nor scoring, nor generate_content.
C2_NoModelFailsFast ==
    (Answered /\ model = None) =>
        /\ IsError(500, "Model not available")
        /\ calls = << >>
        /\ prompt = << >>

\* a complete Tailor request that reaches a server without a backend handle
C2_Witness ==
    /\ model = None
    /\ request.op = "customize"
    /\ request.files.resume.present
    /\ request.files.job_description.present
    /\ extract_text(request.files.resume.val).text # << >>
    /\ extract_text(request.files.job_description.val).text # << >>
    /\ backend.ok
    /\ response.status = 500

\* the request lacks a required document or field
MissingInput ==
    CASE request.op = "customize" ->
             ~request.files.resume.present \/ ~request.files.job_description.present
      [] request.op = "prepare_interview" ->
             \/ request.data.kind # "object"
             \/ Falsy(request.data.fields.resume_text)
             \/ Falsy(request.data.fields.jd_text)
      [] request.op = "chat" ->
             \/ request.data.kind # "object"
             \/ Falsy(request.data.fields.resume_text)
             \/ Falsy(request.data.fields.message)

\* C3: a request that lacks a document or a field gets an input-error
\* response from each operation; no exception leaves the view function.
C3_MissingInputIsInputError ==
    (Answered /\ model # None /\ MissingInput) =>
        /\ response.raised = "none"
        /\ response.status = 400
        /\ ResponseFields = {"error"}

\* C8: handling a request calls generate_content at most once; a failed call
\* ends in one status-500 error carrying the backend error text and no result
\* field, a successful one in a response with all result fields; no response
\* mixes an error with result fields or carries part of the result.
C8_OneCallOneAnswer ==
    Answered =>
        /\ Cardinality(GenerateIndexes) <= 1
        /\ \A i \in GenerateIndexes :
               IF calls[i].ok
               THEN /\ response.status = 200
                    /\ response.raised = "none"
                    /\ ResponseFields = ResultFields
               ELSE IsError(500, backend.error)
        /\ "error" \in ResponseFields => ResponseFields = {"error"}
        /\ ResponseFields \cap ResultFields # {} => ResponseFields = ResultFields

\* a Tailor request whose backend call failed
C8_Witness ==
    /\ request.op = "customize"
    /\ GenerateIndexes # {}
    /\ \A i \in GenerateIndexes : ~calls[i].ok
    /\ response.status = 500
    /\ response.body.error = "backend failure"

\* the filename carries one of the three suffixes extract_text knows
SupportedName(name) ==
    \E suf \in {DotPdf, DotDocx, DotTxt} :
        /\ Len(name) >= Len(suf)
        /\ \A k \in 1..Len(suf) : name[Len(name) - Len(suf) + k] = suf[k]

\* unsupported suffix, unreadable bytes or a document without text
Unextractable(doc) == ~SupportedName(doc.filename) \/ ~doc.readable \/ doc.text = << >>

TailorWithBothFiles ==
    /\ request.op = "customize"
    /\ model # None
    /\ request.files.resume.present
    /\ request.files.job_description.present

\* C9: in Tailor, when extraction gives no text for the resume or for the job
\* description, the answer is the status-400 error "Could not extract text
\* from files" and neither calculate_match_score nor generate_content runs;
\* extract_text never raises to its caller.
C9_EmptyExtractionStops ==
    TailorWithBothFiles =>
        /\ \A i \in DOMAIN calls : calls[i].fn = "extract_text" => calls[i].ok
        /\ (Unextractable(request.files.resume.val)
            \/ Unextractable(request.files.job_description.val)) =>
               /\ IsError(400, "Could not extract text from files")
               /\ \A i \in DOMAIN calls : calls[i].fn = "extract_text"

\* a Tailor request whose resume alone cannot be extracted, its suffix being
\* unknown to extract_text
C9_Witness ==
    /\ TailorWithBothFiles
    /\ ~SupportedName(request.files.resume.val.filename)
    /\ request.files.resume.val.text # << >>
    /\ ~Unextractable(request.files.job_description.val)
    /\ response.status = 400

ChatValid ==
    /\ request.op = "chat"
    /\ model # None
    /\ request.data.kind = "object"
    /\ ~Falsy(request.data.fields.resume_text)
    /\ ~Falsy(request.data.fields.message)

SuppliedHistory ==
    IF request.data.fields.history.present THEN request.data.fields.history.val ELSE << >>

\* the number of prompt pieces before the transcript
TranscriptStart == 4

\* C10: a Chat request that passes validation hands the backend a prompt
\* that holds, after the persona instruction and the resume, one line
\* "<Role>: <content>" per prior turn in the order supplied (none dropped,
\* repeated or moved, the role label capitalized), then the new user message
\* and last the "Assistant:" cue.
C10_TranscriptInOrder ==
    ChatValid =>
        LET h == SuppliedHistory
            n == Len(h)
            e == TranscriptStart + 4 * n
        IN  /\ GenerateIndexes # {}
            /\ Len(prompt) = e + 3
            /\ prompt[2] = Txt(request.data.fields.resume_text.val)
            /\ \A i \in 1..n :
                   LET o     == TranscriptStart + 4 * (i - 1)
                       label == prompt[o + 1].text
                   IN  /\ Len(label) = Len(h[i].role)
                       /\ LowerText(label) = LowerText(h[i].role)
                       /\ label[1] = UpperChar(h[i].role[1])
                       /\ prompt[o + 2] = Lit(": ")
                       /\ prompt[o + 3] = Txt(h[i].content)
                       /\ prompt[o + 4] = Lit("\n")
            /\ prompt[e + 1] = Lit("\nUser: ")
            /\ prompt[e + 2] = Txt(request.data.fields.message.val)
            /\ prompt[e + 3] = Lit("\nAssistant:")

\* a Chat request with two different prior turns
C10_Witness ==
    /\ ChatValid
    /\ Len(SuppliedHistory) = 2
    /\ SuppliedHistory[1] # SuppliedHistory[2]
    /\ GenerateIndexes # {}

====
